---------------------------- MODULE Spec2Model ----------------------------
(***************************************************************************)
(* Model of the repeat-bar layout core of hymn_pdf_generator:              *)
(*   - LevelAllocator            (repetition_bar_allocator.py)             *)
(*   - Hymn.adjusted_font_size   (models.py)                               *)
(*   - HymnPDFGenerator._build_vertical_lines / _build_elements            *)
(*                                (pdf_elements.py)                        *)
(*                                                                         *)
(* A Python str is a sequence of one-character strings, so that split()    *)
(* and int() are computed character by character.                          *)
(***************************************************************************)
EXTENDS Integers, Sequences, FiniteSets

VARIABLES
    pc,          \* position of the running allocator call: "idle", "loop", "done", "raised"
    method,      \* the LevelAllocator method that was called
    s,           \* the argument s of the call
    entries,     \* local `entries` (s.split(','))
    cursor,      \* index in `entries` of the entry the for loop handles next
    allocation,  \* allocation dict of the allocator constructed last: line number -> level
    levels,      \* local `levels` of allocate_levels
    result,      \* local `result` of get_entries_with_levels
    ret,         \* what the call returned
    hymn,        \* the Hymn at hand
    gen,         \* position of HymnPDFGenerator._build_elements
    hymn_idx,    \* how many hymns the loop of _build_elements has taken
    elements,    \* local `elements` of _build_vertical_lines, as returned
    book_lines,  \* how many VerticalLines the `elements` of _build_elements holds
    fit_pc,      \* position of Hymn.adjusted_font_size: "off", "start", "loop", "returned"
    lines,       \* self.text.split("\n")
    line_no,     \* index in `lines` of the line the for loop is at
    font_size,   \* local `font_size`
    decrements,  \* how many times `font_size -= 1` has run
    first_ret,   \* what the first call on the allocator returned, kept by the caller
    count_call   \* the call of Hymn.count_blank_lines made last: arguments, locals, result

allocVars == <<pc, method, s, entries, cursor, allocation, levels, result, ret>>

genVars == <<gen, hymn_idx, elements, book_lines>>

fitVars == <<fit_pc, lines, line_no, font_size, decrements>>

callVars == <<first_ret, count_call>>

vars == <<allocVars, genVars, fitVars, hymn, callVars>>

---------------------------------------------------------------------------
(* Bounds of the explored inputs.                                          *)

\* line numbers written in the generated range tokens are 1..MaxLine
MaxLine == 3
\* the generated range strings hold 1..MaxEntries comma-separated tokens
MaxEntries == 3
\* the texts given to the font fitter hold 1..MaxTextLines lines
MaxTextLines == 2
\* the longest line given to the font fitter, in glyphs
MaxLineChars == 34
\* line numbers written in the range tokens of a book's hymns are 1..MaxBookLine
MaxBookLine == 2
\* the range strings of a book's hymns hold 1..MaxBookEntries tokens
MaxBookEntries == 2
\* a book holds at most MaxSongs hymns
MaxSongs == 2

---------------------------------------------------------------------------
(* Python helpers.                                                         *)

Max(a, b) == IF a >= b THEN a ELSE b

Digits == <<"0", "1", "2", "3", "4", "5", "6", "7", "8", "9">>

IsDigit(c) == \E d \in 1..10 : Digits[d] = c

DigitVal(c) == (CHOOSE d \in 1..10 : Digits[d] = c) - 1

RECURSIVE SplitFrom(_, _, _, _, _)
SplitFrom(str, sep, i, cur, out) ==
    IF i > Len(str) THEN Append(out, cur)
    ELSE IF str[i] = sep
         THEN SplitFrom(str, sep, i + 1, <<>>, Append(out, cur))
         ELSE SplitFrom(str, sep, i + 1, Append(cur, str[i]), out)

\* str.split(sep) for a one-character sep: always at least one piece
Split(str, sep) == SplitFrom(str, sep, 1, <<>>, <<>>)

\* sep.join(parts) from part k on
RECURSIVE JoinWith(_, _, _)
JoinWith(parts, sep, k) ==
    IF k > Len(parts) THEN <<>>
    ELSE IF k = Len(parts) THEN parts[k]
    ELSE parts[k] \o <<sep>> \o JoinWith(parts, sep, k + 1)

\* int(tok) raises ValueError unless tok is a non-empty run of digits
\* (the explored alphabet holds no sign, blank or underscore)
IntOk(tok) == tok # <<>> /\ \A i \in 1..Len(tok) : IsDigit(tok[i])

RECURSIVE IntFrom(_, _, _)
IntFrom(tok, i, acc) ==
    IF i > Len(tok) THEN acc
    ELSE IntFrom(tok, i + 1, 10 * acc + DigitVal(tok[i]))

\* int(tok) of a tok with IntOk(tok)
IntVal(tok) == IntFrom(tok, 1, 0)

\* a parse that reads a token without separator as a one-line range
ParseEntryLenient(entry) ==
    LET f == Split(entry, "-")
    IN  IF Len(f) = 2 /\ IntOk(f[1]) /\ IntOk(f[2])
        THEN [ok |-> TRUE, start |-> IntVal(f[1]), end |-> IntVal(f[2])]
        ELSE IF Len(f) = 1 /\ IntOk(f[1])
        THEN [ok |-> TRUE, start |-> IntVal(f[1]), end |-> IntVal(f[1])]
        ELSE [ok |-> FALSE, start |-> 0, end |-> 0]

\* `start, end = map(int, entry.split('-'))`: completes (ok) with the two
\* integers when the token has exactly two fields that int() accepts, and
\* raises ValueError (not ok) otherwise
ParseEntry(entry) ==
    LET f == Split(entry, "-")
    IN  IF Len(f) = 2 /\ IntOk(f[1]) /\ IntOk(f[2])
        THEN [ok |-> TRUE, start |-> IntVal(f[1]), end |-> IntVal(f[2])]
        ELSE [ok |-> FALSE, start |-> 0, end |-> 0]

---------------------------------------------------------------------------
(* LevelAllocator.                                                         *)

\* LevelAllocator.__init__: self.allocation = {}
EmptyAllocation == <<>>

\* d[k] = v on a dict
Put(d, k, v) == [x \in (DOMAIN d) \cup {k} |-> IF x = k THEN v ELSE d[x]]

\* inner loop of get_level: for i in range(r[0], r[1] + 1)
RECURSIVE GetLevelInner(_, _, _, _)
GetLevelInner(alloc, i, last, max_level) ==
    IF i > last THEN max_level
    ELSE GetLevelInner(alloc, i + 1, last,
                       IF i \in DOMAIN alloc
                       THEN Max(max_level, alloc[i])
                       ELSE max_level)

\* outer loop of get_level: for r in ranges
RECURSIVE GetLevelOuter(_, _, _, _)
GetLevelOuter(alloc, ranges, k, max_level) ==
    IF k > Len(ranges) THEN max_level
    ELSE GetLevelOuter(alloc, ranges, k + 1,
                       GetLevelInner(alloc, ranges[k][1], ranges[k][2], max_level))

\* a get_level whose inner loop stops one line short: range(r[0], r[1])
get_level_short(alloc, ranges) ==
    LET clipped == [k \in 1..Len(ranges) |-> <<ranges[k][1], ranges[k][2] - 1>>]
    IN  GetLevelOuter(alloc, clipped, 1, 0) + 1

\* a get_level that takes the maximum over every allocated line
get_level_global(alloc, ranges) ==
    LET all == {alloc[i] : i \in DOMAIN alloc} \cup {0}
    IN  (CHOOSE m \in all : \A x \in all : x <= m) + 1

\* a get_level whose max_level is never raised
get_level_flat(alloc, ranges) == 0 + 1

\* LevelAllocator.get_level(ranges)
get_level(alloc, ranges) == GetLevelOuter(alloc, ranges, 1, 0) + 1

\* a write loop over range(start, end), which leaves out the end line
RECURSIVE WriteLevelShort(_, _, _, _)
WriteLevelShort(alloc, i, last, level) ==
    IF i >= last THEN alloc
    ELSE WriteLevelShort(Put(alloc, i, level), i + 1, last, level)

\* the write loop of _allocate_level_for_entry:
\* for i in range(start, end + 1): self.allocation[i] = level
RECURSIVE WriteLevel(_, _, _, _)
WriteLevel(alloc, i, last, level) ==
    IF i > last THEN alloc
    ELSE WriteLevel(Put(alloc, i, level), i + 1, last, level)

\* a write loop that keeps the level a line already has (setdefault)
RECURSIVE WriteLevelKeep(_, _, _, _)
WriteLevelKeep(alloc, i, last, level) ==
    IF i > last THEN alloc
    ELSE WriteLevelKeep(IF i \in DOMAIN alloc THEN alloc ELSE Put(alloc, i, level),
                        i + 1, last, level)

\* an _allocate_level_for_entry that never overwrites a recorded level
_allocate_level_for_entry_keep(alloc, start, end) ==
    LET level == get_level(alloc, <<<<start, end>>>>)
    IN  [level |-> level, allocation |-> WriteLevelKeep(alloc, start, end, level)]

\* LevelAllocator._allocate_level_for_entry(start, end): the level returned
\* and the allocation left behind
_allocate_level_for_entry(alloc, start, end) ==
    LET level == get_level(alloc, <<<<start, end>>>>)
    IN  [level |-> level, allocation |-> WriteLevel(alloc, start, end, level)]

---------------------------------------------------------------------------
(* Inputs.                                                                 *)

\* str(n)
RECURSIVE Str(_)
Str(n) == IF n < 10 THEN <<Digits[n + 1]>>
          ELSE Str(n \div 10) \o <<Digits[(n % 10) + 1]>>

\* the token "a-b"
RangeToken(a, b) == Str(a) \o <<"-">> \o Str(b)

\* every token "a-b" over the explored line numbers, start > end included
RangeTokens == {RangeToken(a, b) : a \in 1..MaxLine, b \in 1..MaxLine}

\* tokens the parse rejects: no separator, a non-numeric field, too many fields
MalformedTokens == { <<"2">>, <<"1", "-", "x">>, <<"1", "-", "2", "-", "3">> }

Tokens == RangeTokens \cup MalformedTokens

\* the documented example "1-2,3-4,1-4,2-3,3-5"
DocExample ==
    <<"1","-","2",",","3","-","4",",","1","-","4",",","2","-","3",",","3","-","5">>

Inputs ==
    {JoinWith(t, ",", 1) : t \in UNION {[1..n -> Tokens] : n \in 1..MaxEntries}}
        \cup {DocExample}

Methods == {"allocate_levels", "get_entries_with_levels"}

NoReturn == [kind |-> "none", levels |-> <<>>]

\* Optional[str]
None == [is_none |-> TRUE, chars |-> <<>>]

Some(str) == [is_none |-> FALSE, chars |-> str]

\* no Hymn at hand
NoHymn == [text |-> <<>>, repetitions |-> None, default_body_font_size |-> 0]

---------------------------------------------------------------------------
(* One allocation session: a LevelAllocator is constructed and one of its  *)
(* two public methods is called on a range string.                         *)

\* no call is running on the allocator
AllocIdle ==
    /\ pc = "idle"
    /\ method = "none"
    /\ s = <<>>
    /\ entries = <<>>
    /\ cursor = 0
    /\ levels = <<>>
    /\ result = <<>>
    /\ ret = NoReturn

\* no generator is running
GenOff == gen = "none" /\ hymn_idx = 0 /\ elements = <<>> /\ book_lines = 0

\* adjusted_font_size is not being evaluated
FitOff == fit_pc = "off" /\ lines = <<>> /\ line_no = 0 /\ font_size = 0 /\ decrements = 0

\* count_blank_lines has not been called
NoCount == [called |-> FALSE, start_line |-> 0, end_line |-> 0,
            actual_end_line |-> 0, blank_lines |-> 0]

\* the caller holds no earlier return value and has not called count_blank_lines
CallsOff == first_ret = NoReturn /\ count_call = NoCount

Init ==
    /\ AllocIdle
    /\ allocation = EmptyAllocation
    /\ hymn = NoHymn
    /\ GenOff
    /\ FitOff
    /\ CallsOff

\* allocate_levels(s) / get_entries_with_levels(s) up to the for loop:
\* entries = s.split(','); levels = [] / result = []
Call(m, str) ==
    /\ pc = "idle"
    /\ pc' = "loop"
    /\ method' = m
    /\ s' = str
    /\ entries' = Split(str, ",")
    /\ cursor' = 1
    /\ levels' = <<>>
    /\ result' = <<>>
    /\ ret' = NoReturn

\* one iteration of `for entry in entries` whose parse succeeds
LoopStep ==
    /\ pc = "loop"
    /\ cursor <= Len(entries)
    /\ ParseEntry(entries[cursor]).ok
    /\ LET e == ParseEntry(entries[cursor])
           a == _allocate_level_for_entry(allocation, e.start, e.end)
       IN  /\ allocation' = a.allocation
           /\ IF method = "allocate_levels"
              THEN /\ levels' = Append(levels, a.level)
                   /\ UNCHANGED result
              ELSE /\ result' = Append(result,
                        [start |-> e.start, end |-> e.end, level |-> a.level])
                   /\ UNCHANGED levels
    /\ cursor' = cursor + 1
    /\ UNCHANGED <<pc, method, s, entries, ret, hymn, genVars, fitVars, callVars>>

\* one iteration of `for entry in entries` whose parse raises ValueError:
\* the exception leaves the method, nothing is returned
LoopRaise ==
    /\ pc = "loop"
    /\ cursor <= Len(entries)
    /\ ~ParseEntry(entries[cursor]).ok
    /\ pc' = "raised"
    /\ UNCHANGED <<method, s, entries, cursor, allocation, levels, result, ret>>
    /\ UNCHANGED <<hymn, genVars, fitVars, callVars>>

\* the loop is exhausted: return levels / return result
Return ==
    /\ pc = "loop"
    /\ cursor > Len(entries)
    /\ pc' = "done"
    /\ ret' = IF method = "allocate_levels"
              THEN [kind |-> "levels", levels |-> levels]
              ELSE [kind |-> "entries",
                    levels |-> [k \in 1..Len(result) |-> result[k].level]]
    /\ UNCHANGED <<method, s, entries, cursor, allocation, levels, result>>
    /\ UNCHANGED <<hymn, genVars, fitVars, callVars>>

\* the caller's choice of method and argument
CallAny ==
    /\ pc = "idle"
    /\ gen = "none"
    /\ \E m \in Methods, str \in Inputs : Call(m, str)
    /\ UNCHANGED <<allocation, hymn, genVars, fitVars, callVars>>

Next == CallAny \/ LoopStep \/ LoopRaise \/ Return

Spec == Init /\ [][Next]_vars

---------------------------------------------------------------------------
(* What a call has emitted so far, read from the locals of either method.  *)

NumEmitted == IF method = "allocate_levels" THEN Len(levels) ELSE Len(result)

\* the levels emitted so far, in order
EmittedLevels ==
    IF method = "allocate_levels" THEN levels
    ELSE [k \in 1..Len(result) |-> result[k].level]

\* the ranges the levels were emitted for, in order
EmittedRanges ==
    IF method = "allocate_levels"
    THEN [k \in 1..Len(levels) |->
            LET e == ParseEntry(entries[k]) IN [start |-> e.start, end |-> e.end]]
    ELSE [k \in 1..Len(result) |-> [start |-> result[k].start, end |-> result[k].end]]

Valid(r) == 1 <= r.start /\ r.start <= r.end

Covers(r) == r.start .. r.end

Share(a, b) == Covers(a) \cap Covers(b) # {}

SetMax(S) == CHOOSE m \in S : \A x \in S : x <= m

\* the levels held by the ranges before the k-th of rs that share a line
\* with it (ls are the levels of rs)
HeldBefore(rs, ls, k) == {ls[j] : j \in {i \in 1..(k - 1) : Share(rs[i], rs[k])}}

---------------------------------------------------------------------------
(* Claims about one allocation session (specification Spec).               *)

\* C1: within one session, any two valid ranges that share a line number
\* are emitted with different levels, whatever was processed around them.
C1_OverlappingRangesDiffer ==
    LET rs == EmittedRanges
        ls == EmittedLevels
    IN  \A i \in 1..Len(rs) : \A j \in 1..Len(rs) :
            (i < j /\ Valid(rs[i]) /\ Valid(rs[j]) /\ Share(rs[i], rs[j]))
            => ls[i] # ls[j]

\* two overlapping valid ranges with another range processed between them
C1_Witness ==
    LET rs == EmittedRanges
    IN  \E i \in 1..Len(rs) : \E j \in 1..Len(rs) :
            /\ i + 1 < j
            /\ Valid(rs[i]) /\ Valid(rs[j])
            /\ Share(rs[i], rs[j])
            /\ ~Share(rs[i], rs[i + 1])

\* C2: the level emitted for a range is 1 + the greatest level recorded in
\* the allocation state for a line number of [start, end], and 1 when no
\* line of [start, end] is recorded; lines outside play no part.
C2_LevelFromLinesInRange ==
    [][(pc = "loop" /\ cursor' = cursor + 1) =>
        LET r == ParseEntry(entries[cursor])
            k == cursor
            recorded == {allocation[i] : i \in (r.start .. r.end) \cap DOMAIN allocation}
            emitted == IF method = "allocate_levels" THEN levels'[k] ELSE result'[k].level
        IN  emitted = IF recorded = {} THEN 1 ELSE 1 + SetMax(recorded)
      ]_vars

\* a range emitted at level 1 although a line outside it holds a level >= 2
C2_Witness ==
    LET rs == EmittedRanges
        ls == EmittedLevels
    IN  \E k \in 2..Len(rs) :
            /\ Valid(rs[k])
            /\ ls[k] = 1
            /\ \E i \in DOMAIN allocation : allocation[i] >= 2

\* C3 as claimed: the level emitted for a range is the least positive
\* integer not held by any earlier range that shares a line number with it.
C3_LeastFreeLevel ==
    LET rs == EmittedRanges
        ls == EmittedLevels
    IN  \A k \in 1..Len(rs) :
            (\A j \in 1..k : Valid(rs[j]))
            => /\ ls[k] >= 1
               /\ ls[k] \notin HeldBefore(rs, ls, k)
               /\ \A l \in 1..(ls[k] - 1) : l \in HeldBefore(rs, ls, k)

\* C3 as amended: the level emitted for a range is one more than the
\* greatest level held by any earlier range that shares a line number with
\* it, and 1 when no earlier range shares a line with it.
C3_OnePlusGreatestHeld ==
    LET rs == EmittedRanges
        ls == EmittedLevels
    IN  \A k \in 1..Len(rs) :
            LET held == HeldBefore(rs, ls, k)
            IN  ls[k] = IF held = {} THEN 1 ELSE 1 + SetMax(held)

\* a range emitted above a level that no overlapping earlier range holds
C3_Witness ==
    LET rs == EmittedRanges
        ls == EmittedLevels
    IN  \E k \in 1..Len(rs) :
            /\ \A j \in 1..k : Valid(rs[j])
            /\ HeldBefore(rs, ls, k) # {}
            /\ \E l \in 1..(ls[k] - 1) : l \notin HeldBefore(rs, ls, k)

\* C4: on a fresh allocator "1-2,3-4,1-4,2-3,3-5" yields the levels
\* [1, 1, 2, 3, 4], from allocate_levels and as the 'level' fields of
\* get_entries_with_levels.
C4_DocExampleLevels ==
    (s = DocExample /\ pc # "idle") =>
        /\ pc # "raised"
        /\ pc = "done" =>
            /\ ret.levels = <<1, 1, 2, 3, 4>>
            /\ ret.kind = IF method = "allocate_levels" THEN "levels" ELSE "entries"

\* the documented example has been processed to its return
C4_Witness == s = DocExample /\ pc = "done" /\ ret.kind # "none"

\* C5 as claimed: a token whose start is greater than its end is rejected
\* with an error: no level is ever emitted for such a token.
C5_StartAfterEndRejected ==
    LET rs == EmittedRanges
    IN  \A k \in 1..Len(rs) : rs[k].start <= rs[k].end

\* a character of a token that is neither a digit nor the separator
NonNumeric(tok) == \E i \in 1..Len(tok) : tok[i] # "-" /\ ~IsDigit(tok[i])

LacksSeparator(tok) == \A i \in 1..Len(tok) : tok[i] # "-"

\* positions of the tokens of s that are non-numeric or lack the separator
BadTokens ==
    LET toks == Split(s, ",")
    IN  {k \in 1..Len(toks) : NonNumeric(toks[k]) \/ LacksSeparator(toks[k])}

SetMin(S) == CHOOSE m \in S : \A x \in S : m <= x

\* C6: when a token of the range string is non-numeric or lacks the '-',
\* the call never returns a list: the loop never gets past the first such
\* token, nothing is emitted for it, and at that token the call raises.
C6_MalformedTokenRaises ==
    pc # "idle" =>
        LET bad == BadTokens
        IN  bad # {} =>
                /\ pc \in {"loop", "raised"}
                /\ ret = NoReturn
                /\ cursor <= SetMin(bad)
                /\ NumEmitted < SetMin(bad)
                /\ (pc = "loop" /\ cursor = SetMin(bad)) => ENABLED LoopRaise

\* a call that raised at a malformed token standing after well-formed ones
C6_Witness ==
    /\ pc = "raised"
    /\ BadTokens # {}
    /\ cursor = SetMin(BadTokens)
    /\ cursor >= 2

---------------------------------------------------------------------------
(* Configuration and Hymn.adjusted_font_size.                              *)

\* reportlab.lib.units.inch, in points
inch == 72

\* Configuration.pagesize
pagesize == <<4 * inch, 6 * inch>>

\* Configuration.margin (0.5 * inch)
margin == inch \div 2

\* Configuration.default_body_font_size
default_body_font_size == 14

\* the smallest size the while loop of adjusted_font_size shrinks to
FontFloor == 6

\* max_width of adjusted_font_size:
\* self.pagesize[0] - 2 * self.margin, then -= 14 for the leading
max_width == (pagesize[1] - 2 * margin) - 14

Whitespace == {" "}

\* advance width of a glyph in thousandths of the font size: one em for
\* "W", half an em for a blank
GlyphWidth(c) == IF c \in Whitespace THEN 500 ELSE 1000

RECURSIVE LineWidth(_, _)
LineWidth(line, i) ==
    IF i > Len(line) THEN 0 ELSE GlyphWidth(line[i]) + LineWidth(line, i + 1)

\* stringWidth(line, font_name, font_size) in thousandths of a point: the
\* glyph widths of the line scaled by the font size
stringWidth(line, size) == LineWidth(line, 1) * size

\* a loop condition without the floor
ShrinkNeededNoFloor(line, size) ==
    stringWidth(line, size) > 1000 * max_width /\ size > 0

\* a loop condition whose floor is one size too high
ShrinkNeededHighFloor(line, size) ==
    stringWidth(line, size) > 1000 * max_width /\ size > FontFloor + 1

\* the while condition of adjusted_font_size:
\* stringWidth(line, self.font_name, font_size) > max_width and font_size > 6
ShrinkNeeded(line, size) ==
    stringWidth(line, size) > 1000 * max_width /\ size > FontFloor

\* the while loop of adjusted_font_size on one line
RECURSIVE ShrinkLine(_, _)
ShrinkLine(line, size) ==
    IF ShrinkNeeded(line, size) THEN ShrinkLine(line, size - 1) ELSE size

\* the for loop of adjusted_font_size from line k on
RECURSIVE FitLines(_, _, _)
FitLines(ls, k, size) ==
    IF k > Len(ls) THEN size ELSE FitLines(ls, k + 1, ShrinkLine(ls[k], size))

\* Hymn.adjusted_font_size, as a value
adjusted_font_size(h) == FitLines(Split(h.text, "\n"), 1, h.default_body_font_size)

\* a line of n glyphs
LineOfW(n) == [i \in 1..n |-> "W"]

\* line lengths on both sides of the width limit at every size from the
\* default down to the floor, and beyond the floor
FitLineLengths == {0, 1, 14, 15, 17, 20, 22, 25, 28, 33, MaxLineChars}

FitLinesOfText == {LineOfW(n) : n \in FitLineLengths}

FitTexts ==
    {JoinWith(ls, "\n", 1) : ls \in UNION {[1..n -> FitLinesOfText] : n \in 1..MaxTextLines}}

\* default sizes from the floor up to the configured default
FitDefaults == FontFloor .. default_body_font_size

FitHymns ==
    {[text |-> t, repetitions |-> None, default_body_font_size |-> d] :
        t \in FitTexts, d \in FitDefaults}

\* a Hymn has been constructed and its adjusted_font_size is about to be read
InitFit ==
    /\ AllocIdle
    /\ allocation = EmptyAllocation
    /\ GenOff
    /\ hymn \in FitHymns
    /\ fit_pc = "start"
    /\ lines = <<>>
    /\ line_no = 0
    /\ font_size = 0
    /\ decrements = 0
    /\ CallsOff

\* font_size = self.default_body_font_size; ...; for line in self.text.split("\n")
FitEnter ==
    /\ fit_pc = "start"
    /\ fit_pc' = "loop"
    /\ font_size' = hymn.default_body_font_size
    /\ lines' = Split(hymn.text, "\n")
    /\ line_no' = 1
    /\ decrements' = 0
    /\ UNCHANGED <<allocVars, genVars, hymn, callVars>>

\* the while condition holds: font_size -= 1
FitShrink ==
    /\ fit_pc = "loop"
    /\ line_no <= Len(lines)
    /\ ShrinkNeeded(lines[line_no], font_size)
    /\ font_size' = font_size - 1
    /\ decrements' = decrements + 1
    /\ UNCHANGED <<fit_pc, lines, line_no, allocVars, genVars, hymn, callVars>>

\* the while condition fails: the for loop moves to the next line
FitNextLine ==
    /\ fit_pc = "loop"
    /\ line_no <= Len(lines)
    /\ ~ShrinkNeeded(lines[line_no], font_size)
    /\ line_no' = line_no + 1
    /\ UNCHANGED <<fit_pc, lines, font_size, decrements, allocVars, genVars, hymn, callVars>>

\* the lines are exhausted: return font_size
FitReturn ==
    /\ fit_pc = "loop"
    /\ line_no > Len(lines)
    /\ fit_pc' = "returned"
    /\ UNCHANGED <<lines, line_no, font_size, decrements, allocVars, genVars, hymn, callVars>>

NextFit == FitEnter \/ FitShrink \/ FitNextLine \/ FitReturn

SpecFit == InitFit /\ [][NextFit]_vars

---------------------------------------------------------------------------
(* Claims about the font fitter (specification SpecFit).                   *)

\* the sizes from 6 to the default at which every line of the hymn's text
\* is within max_width
FittingSizes ==
    LET ls == Split(hymn.text, "\n")
    IN  {sz \in 6 .. hymn.default_body_font_size :
            \A k \in 1..Len(ls) : stringWidth(ls[k], sz) <= 1000 * max_width}

\* C9: for a default size >= 6 the fitting loop makes at most
\* default_size - 6 decrements over all lines and then returns; the size is
\* always an integer in [6, default_size], and it is exactly 6 when some
\* line fits at no size >= 6.
C9_FitBoundedByFloor ==
    (fit_pc \in {"loop", "returned"} /\ hymn.default_body_font_size >= 6) =>
        /\ decrements <= hymn.default_body_font_size - 6
        /\ font_size = hymn.default_body_font_size - decrements
        /\ font_size \in 6 .. hymn.default_body_font_size
        /\ line_no \in 1 .. Len(lines) + 1
        /\ fit_pc = "loop" => ENABLED NextFit
        /\ fit_pc = "returned" => (FittingSizes = {} => font_size = 6)

\* the loop has returned the floor after default_size - 6 decrements for a
\* text with a line that fits at no size
C9_Witness ==
    /\ fit_pc = "returned"
    /\ hymn.default_body_font_size = default_body_font_size
    /\ font_size = 6
    /\ decrements = default_body_font_size - 6
    /\ FittingSizes = {}

\* C10: the size returned is the largest integer in [6, default_size] at
\* which every line of the text is within max_width, and 6 when there is
\* none (the rendered width grows with the size).
C10_LargestFittingSize ==
    fit_pc = "returned" =>
        LET fitting == FittingSizes
        IN  font_size = IF fitting = {} THEN 6 ELSE SetMax(fitting)

\* a size strictly between the floor and the default, forced by the first
\* of two lines
C10_Witness ==
    /\ fit_pc = "returned"
    /\ Len(lines) = 2
    /\ Len(lines[1]) > Len(lines[2])
    /\ 6 < font_size
    /\ font_size < hymn.default_body_font_size
    /\ font_size \in FittingSizes

---------------------------------------------------------------------------
(* Hymn.count_blank_lines and HymnPDFGenerator._build_vertical_lines.      *)

\* not line.strip(): the line holds nothing but whitespace
IsBlank(line) == \A i \in 1..Len(line) : line[i] \in Whitespace

\* a walk that stops one non-blank line early (>= for >)
RECURSIVE ActualEndLineEarly(_, _, _, _, _)
ActualEndLineEarly(ls, i, non_blank_line_count, end_line, actual_end_line) ==
    IF i >= Len(ls) THEN actual_end_line
    ELSE LET count == IF IsBlank(ls[i + 1])
                      THEN non_blank_line_count
                      ELSE non_blank_line_count + 1
         IN  IF count >= end_line THEN i
             ELSE ActualEndLineEarly(ls, i + 1, count, end_line, i)

\* a walk without the trailing `actual_end_line = i` of the loop body
RECURSIVE ActualEndLineNoTrail(_, _, _, _, _)
ActualEndLineNoTrail(ls, i, non_blank_line_count, end_line, actual_end_line) ==
    IF i >= Len(ls) THEN actual_end_line
    ELSE LET count == IF IsBlank(ls[i + 1])
                      THEN non_blank_line_count
                      ELSE non_blank_line_count + 1
         IN  IF count > end_line THEN i
             ELSE ActualEndLineNoTrail(ls, i + 1, count, end_line, actual_end_line)

\* the for loop of count_blank_lines from physical index i (0-based) on:
\* the physical index where the walk stops
RECURSIVE ActualEndLine(_, _, _, _, _)
ActualEndLine(ls, i, non_blank_line_count, end_line, actual_end_line) ==
    IF i >= Len(ls) THEN actual_end_line
    ELSE LET count == IF IsBlank(ls[i + 1])
                      THEN non_blank_line_count
                      ELSE non_blank_line_count + 1
         IN  IF count > end_line THEN i
             ELSE ActualEndLine(ls, i + 1, count, end_line, i)

\* Hymn.count_blank_lines(start_line, end_line)
count_blank_lines(h, start_line, end_line) ==
    LET ls == Split(h.text, "\n")
        actual_end_line == ActualEndLine(ls, start_line, 0, end_line, start_line)
    IN  Cardinality({i \in start_line .. actual_end_line :
                        i >= 0 /\ i < Len(ls) /\ IsBlank(ls[i + 1])})

\* a resize that leaves the number as it is at the default size
resize_off(twice, fitted) == twice * default_body_font_size

\* Lengths are exact multiples of 1/(2 * default_body_font_size) of a point
\* and are held as integers in that unit: resize(n) of a number given as
\* its double, for resize_factor = fitted / default_body_font_size
resize(twice, fitted) == twice * fitted

\* a VerticalLine whose y_end leaves out the height of the last line
\* (end for end + 1)
VerticalLineShort(h, bar) ==
    LET fitted == adjusted_font_size(h)
        y_padding == -8 * (2 * default_body_font_size) + resize(-8, fitted)
        one_line == resize(14, fitted)
        one_blank_line == resize(17, fitted)
        between_lines == resize(18, fitted)
        start == bar.start - 1
        end == bar.end - 1
    IN  [x |-> -(bar.level * resize(12, fitted)),
         y_start |-> y_padding
                        - (start * one_line + start * between_lines)
                        - (count_blank_lines(h, 0, start) * one_blank_line),
         y_end |-> y_padding
                        - (end * one_line + end * between_lines)
                        - (count_blank_lines(h, 0, end) * one_blank_line)]

\* a VerticalLine drawn at the first level's x whatever its level
VerticalLineSameX(h, bar) ==
    LET fitted == adjusted_font_size(h)
        y_padding == -8 * (2 * default_body_font_size) + resize(-8, fitted)
        one_line == resize(14, fitted)
        one_blank_line == resize(17, fitted)
        between_lines == resize(18, fitted)
        start == bar.start - 1
        end == bar.end - 1
    IN  [x |-> -resize(12, fitted),
         y_start |-> y_padding
                        - (start * one_line + start * between_lines)
                        - (count_blank_lines(h, 0, start) * one_blank_line),
         y_end |-> y_padding
                        - ((end + 1) * one_line + end * between_lines)
                        - (count_blank_lines(h, 0, end) * one_blank_line)]

\* the VerticalLine that _build_vertical_lines appends for one bar
VerticalLine(h, bar) ==
    LET fitted == adjusted_font_size(h)
        y_padding == -8 * (2 * default_body_font_size) + resize(-8, fitted)
        x_bars_distance == resize(12, fitted)
        one_line == resize(14, fitted)
        one_blank_line == resize(17, fitted)
        between_lines == resize(18, fitted)
        start == bar.start - 1
        end == bar.end - 1
        level == bar.level
        blanks_before == count_blank_lines(h, 0, start)
        blanks_up_to_end == count_blank_lines(h, 0, end)
    IN  [x |-> -(level * x_bars_distance),
         y_start |-> y_padding
                        - (start * one_line + start * between_lines)
                        - (blanks_before * one_blank_line),
         y_end |-> y_padding
                        - ((end + 1) * one_line + end * between_lines)
                        - (blanks_up_to_end * one_blank_line)]

\* an allocator shared by all the hymns
SharedAllocator(old) == old

\* allocator = RepetitionBarXAxisAllocator(): a new allocator for this call
\* (old is the allocation of the allocator constructed before it)
NewAllocator(old) == EmptyAllocation

---------------------------------------------------------------------------
(* A book: HymnPDFGenerator._build_elements takes the hymns one by one and *)
(* calls _build_vertical_lines on each.                                    *)

BookTokens ==
    {RangeToken(a, b) : a \in 1..MaxBookLine, b \in 1..MaxBookLine} \cup { <<"2">> }

BookRepetitions ==
    {None} \cup
    {Some(JoinWith(t, ",", 1)) : t \in UNION {[1..n -> BookTokens] : n \in 1..MaxBookEntries}}

\* "W\n\nW" and a text whose first line fits at size 12 only, with a blank
\* second line
BookTexts ==
    { <<"W", "\n", "\n", "W">>,
      LineOfW(16) \o <<"\n", " ", "\n", "W">> }

BookHymns ==
    {[text |-> t, repetitions |-> r, default_body_font_size |-> default_body_font_size] :
        t \in BookTexts, r \in BookRepetitions}

InitBook ==
    /\ AllocIdle
    /\ allocation = EmptyAllocation
    /\ hymn = NoHymn
    /\ gen = "for_hymns"
    /\ hymn_idx = 0
    /\ elements = <<>>
    /\ book_lines = 0
    /\ FitOff
    /\ CallsOff

\* for idx, hymn in enumerate(self.hymns, start=1): the next hymn of the book
NextHymn ==
    /\ gen = "for_hymns"
    /\ hymn_idx < MaxSongs
    /\ \E h \in BookHymns : hymn' = h
    /\ hymn_idx' = hymn_idx + 1
    /\ gen' = "build_vertical_lines"
    /\ elements' = <<>>
    /\ UNCHANGED <<book_lines, allocVars, fitVars, callVars>>

\* _build_vertical_lines up to the call of get_entries_with_levels:
\* elements = []; a new allocator; get_entries_with_levels(hymn.repetitions),
\* where s.split(',') raises AttributeError when s is None
BuildEnter ==
    /\ gen = "build_vertical_lines"
    /\ allocation' = NewAllocator(allocation)
    /\ elements' = <<>>
    /\ \/ /\ hymn.repetitions.is_none
          /\ pc' = "raised"
          /\ method' = "get_entries_with_levels"
          /\ UNCHANGED <<s, entries, cursor, levels, result, ret>>
       \/ /\ ~hymn.repetitions.is_none
          /\ Call("get_entries_with_levels", hymn.repetitions.chars)
    /\ gen' = "get_entries_with_levels"
    /\ UNCHANGED <<hymn, hymn_idx, book_lines, fitVars, callVars>>

\* _build_vertical_lines after get_entries_with_levels has returned: one
\* VerticalLine per bar, in order; return elements, which _build_elements
\* appends to its own list. The locals of the allocator call are gone.
BuildSegments ==
    /\ gen = "get_entries_with_levels"
    /\ pc = "done"
    /\ elements' = [k \in 1..Len(result) |-> VerticalLine(hymn, result[k])]
    /\ book_lines' = book_lines + Len(result)
    /\ gen' = "for_hymns"
    /\ pc' = "idle"
    /\ method' = "none"
    /\ s' = <<>>
    /\ entries' = <<>>
    /\ cursor' = 0
    /\ levels' = <<>>
    /\ result' = <<>>
    /\ ret' = NoReturn
    /\ UNCHANGED <<allocation, hymn, hymn_idx, fitVars, callVars>>

\* the hymns are exhausted: return elements
Finish ==
    /\ gen = "for_hymns"
    /\ gen' = "finished"
    /\ UNCHANGED <<allocVars, hymn, hymn_idx, elements, book_lines, fitVars, callVars>>

NextBook ==
    NextHymn \/ BuildEnter \/ LoopStep \/ LoopRaise \/ Return \/ BuildSegments \/ Finish

SpecBook == InitBook /\ [][NextBook]_vars

---------------------------------------------------------------------------
(* Claims about a book (specification SpecBook).                           *)

\* C7 as claimed: for a hymn without repetitions (None),
\* _build_vertical_lines completes normally and returns an empty list.
C7_NoRepetitionsNoSegments ==
    (hymn_idx >= 1 /\ hymn.repetitions.is_none) =>
        /\ pc # "raised"
        /\ gen = "for_hymns" => elements = <<>>

\* what a fresh allocator emits for the entries from the k-th on
RECURSIVE FreshLevels(_, _, _)
FreshLevels(es, k, alloc) ==
    IF k > Len(es) \/ ~ParseEntry(es[k]).ok THEN <<>>
    ELSE LET e == ParseEntry(es[k])
             a == _allocate_level_for_entry(alloc, e.start, e.end)
         IN  <<a.level>> \o FreshLevels(es, k + 1, a.allocation)

\* C8: whatever hymns were processed before, the levels assigned to the
\* ranges of the hymn at hand are those a fresh allocator assigns to its
\* range list alone.
C8_NoLeakBetweenSongs ==
    (gen = "get_entries_with_levels" /\ pc \in {"loop", "done"}) =>
        /\ \A k \in 1..Len(result) :
              result[k].level = FreshLevels(entries, 1, EmptyAllocation)[k]
        /\ pc = "done" =>
              ret.levels = FreshLevels(Split(hymn.repetitions.chars, ","), 1, EmptyAllocation)

\* the second hymn of a book has been given its levels, one of them above
\* 1, after a first hymn with two ranges
C8_Witness ==
    /\ hymn_idx = 2
    /\ book_lines >= 2
    /\ gen = "get_entries_with_levels"
    /\ pc = "done"
    /\ Len(ret.levels) >= 2
    /\ \E k \in 1..Len(ret.levels) : ret.levels[k] >= 2

---------------------------------------------------------------------------
(* One hymn: its count_blank_lines called directly, and the                *)
(* _build_vertical_lines call that _build_elements makes on it.            *)

\* the texts of the explored hymns hold 1..MaxLayoutLines physical lines
MaxLayoutLines == 3
\* line numbers written in the range tokens of the explored hymns
MaxLayoutLine == 2
\* the range strings of the explored hymns hold 1..MaxLayoutEntries tokens
MaxLayoutEntries == 2

\* glyphs in the first non-blank line of a text: the text fits at the
\* default size, at a size in between, or at no size
LayoutWidths == {1, 17, MaxLineChars}

\* the lines ls with the first non-blank one, if any, made w glyphs wide
Widen(ls, w) ==
    LET non_blank == {i \in 1..Len(ls) : ls[i] # <<>>}
    IN  [i \in 1..Len(ls) |->
            IF i \in non_blank /\ (\A j \in non_blank : i <= j) THEN LineOfW(w) ELSE ls[i]]

\* texts of blank and non-blank lines
LayoutTexts ==
    UNION { {JoinWith(Widen(ls, w), "\n", 1) : ls \in [1..n -> {<<>>, <<"W">>}]} :
                n \in 1..MaxLayoutLines, w \in LayoutWidths }

\* valid ranges, a range with start > end and a token without separator
LayoutTokens ==
    UNION { {RangeToken(a, b) : b \in a..MaxLayoutLine} : a \in 1..MaxLayoutLine }
        \cup { RangeToken(2, 1), <<"2">> }

LayoutRepetitions ==
    {None} \cup
    {Some(JoinWith(t, ",", 1)) :
        t \in UNION {[1..n -> LayoutTokens] : n \in 1..MaxLayoutEntries}}

LayoutHymns ==
    {[text |-> t, repetitions |-> r, default_body_font_size |-> default_body_font_size] :
        t \in LayoutTexts, r \in LayoutRepetitions}

\* hymns with at most one range, which may end past the last line
CountRepetitions ==
    {None, Some(<<"2">>)} \cup
    {Some(RangeToken(a, b)) : a \in 1..(MaxLayoutLines + 1), b \in 1..(MaxLayoutLines + 1)}

CountHymns ==
    {[text |-> t, repetitions |-> r, default_body_font_size |-> default_body_font_size] :
        t \in LayoutTexts, r \in CountRepetitions}

\* a Hymn has been constructed; nothing has been called on it
HymnReady ==
    /\ AllocIdle
    /\ allocation = EmptyAllocation
    /\ gen = "hymn"
    /\ hymn_idx = 0
    /\ elements = <<>>
    /\ book_lines = 0
    /\ FitOff
    /\ CallsOff

InitLayout == hymn \in LayoutHymns /\ HymnReady

InitCount == hymn \in CountHymns /\ HymnReady

\* _build_elements takes the hymn and calls _build_vertical_lines(hymn)
BuildCall ==
    /\ gen = "hymn"
    /\ gen' = "build_vertical_lines"
    /\ hymn_idx' = hymn_idx + 1
    /\ UNCHANGED <<elements, book_lines, allocVars, fitVars, hymn, callVars>>

\* hymn.count_blank_lines(start_line, end_line), called on its own
CountBlankLines ==
    /\ gen = "hymn"
    /\ \E start_line \in 0..Len(Split(hymn.text, "\n")), end_line \in 0..MaxLayoutLines :
          count_call' =
              [called |-> TRUE,
               start_line |-> start_line,
               end_line |-> end_line,
               actual_end_line |->
                   ActualEndLine(Split(hymn.text, "\n"), start_line, 0, end_line, start_line),
               blank_lines |-> count_blank_lines(hymn, start_line, end_line)]
    /\ gen' = "count_blank_lines"
    /\ UNCHANGED <<hymn_idx, elements, book_lines, allocVars, fitVars, hymn, first_ret>>

NextLayout == BuildCall \/ BuildEnter \/ LoopStep \/ LoopRaise \/ Return \/ BuildSegments

SpecLayout == InitLayout /\ [][NextLayout]_vars

NextCount == CountBlankLines \/ NextLayout

SpecCount == InitCount /\ [][NextCount]_vars

---------------------------------------------------------------------------
(* Claims about count_blank_lines (specification SpecCount).               *)

\* the physical lines of the hymn at hand
PhysicalLines == Split(hymn.text, "\n")

\* the physical indices (0-based) of the blank lines of ls
BlankAt(ls) == {i \in 0..(Len(ls) - 1) : \A k \in 1..Len(ls[i + 1]) : ls[i + 1][k] = " "}

\* the physical indices of the non-blank lines of ls at or after start
NonBlankFrom(ls, start) == {i \in start..(Len(ls) - 1) : i \notin BlankAt(ls)}

\* C11: when at least end + 1 non-blank lines lie at or after physical
\* index start, count_blank_lines(start, end) stops at the (end + 1)-th of
\* them and returns the number of blank physical lines from start to there;
\* from start 0 that is the number of blank lines before logical line end.
\* For a text without blank lines it returns 0 for every window.
C11_BlankLinesUpToLogicalLine ==
    count_call.called =>
        LET c == count_call
            ls == PhysicalLines
            blanks == BlankAt(ls)
            nb == NonBlankFrom(ls, c.start_line)
        IN  /\ Cardinality(nb) > c.end_line =>
                LET target == CHOOSE i \in nb :
                                  Cardinality({j \in nb : j <= i}) = c.end_line + 1
                IN  /\ c.actual_end_line = target
                    /\ c.blank_lines =
                          Cardinality({i \in blanks : c.start_line <= i /\ i <= target})
                    /\ c.start_line = 0 =>
                          c.blank_lines = Cardinality({i \in blanks : i < target})
            /\ blanks = {} => c.blank_lines = 0

\* a call from a blank physical line 1 to the first non-blank line after it
C11_Witness ==
    /\ count_call.called
    /\ count_call.start_line = 1
    /\ count_call.end_line = 0
    /\ count_call.actual_end_line = 2
    /\ count_call.blank_lines = 1

\* the entries of the hymn's range string, parsed
ParsedRepetitions ==
    LET es == Split(hymn.repetitions.chars, ",")
    IN  [k \in 1..Len(es) |-> ParseEntry(es[k])]

\* C12: when fewer than end + 1 non-blank lines lie at or after physical
\* index start, count_blank_lines(start, end) raises nothing and returns the
\* number of blank lines from start to the last physical line, where the
\* walk stops; and _build_vertical_lines still emits the segment of a range
\* whose end is past the last logical line, placed with every blank line
\* of the text counted.
C12_EndPastLastLine ==
    LET ls == PhysicalLines
        blanks == BlankAt(ls)
    IN  /\ count_call.called =>
              LET c == count_call
              IN  Cardinality(NonBlankFrom(ls, c.start_line)) <= c.end_line =>
                      /\ c.blank_lines = Cardinality({i \in blanks : i >= c.start_line})
                      /\ c.start_line < Len(ls) => c.actual_end_line = Len(ls) - 1
        /\ (hymn_idx = 1 /\ ~hymn.repetitions.is_none) =>
              LET bars == ParsedRepetitions
                  fitted == adjusted_font_size(hymn)
              IN  (\A k \in 1..Len(bars) : bars[k].ok) =>
                      /\ pc # "raised"
                      /\ gen = "for_hymns" =>
                             /\ Len(elements) = Len(bars)
                             /\ \A k \in 1..Len(bars) :
                                   bars[k].end > Cardinality(NonBlankFrom(ls, 0)) =>
                                       elements[k].y_end =
                                           - 8 * (2 * default_body_font_size)
                                           - 8 * fitted
                                           - (bars[k].end * 14 * fitted
                                              + (bars[k].end - 1) * 18 * fitted)
                                           - Cardinality(blanks) * 17 * fitted

\* a call whose window runs out of non-blank lines and ends on a trailing
\* blank line, which is counted
C12_Witness ==
    /\ count_call.called
    /\ count_call.start_line = 1
    /\ count_call.end_line >= 1
    /\ Len(PhysicalLines) = 3
    /\ 2 \in BlankAt(PhysicalLines)
    /\ 1 \notin BlankAt(PhysicalLines)
    /\ count_call.actual_end_line = 2
    /\ count_call.blank_lines = 1

---------------------------------------------------------------------------
(* Claims about the segments of one hymn (specification SpecLayout).       *)

\* _build_vertical_lines has returned its segments
Built == gen = "for_hymns" /\ hymn_idx = 1

\* the levels of the hymn's ranges, in order
SongLevels == FreshLevels(Split(hymn.repetitions.chars, ","), 1, EmptyAllocation)

\* the blank physical lines of ls up to logical line n (0-based), or all of
\* them when ls has no logical line n
BlanksThrough(ls, n) ==
    LET nb == NonBlankFrom(ls, 0)
    IN  IF Cardinality(nb) > n
        THEN LET at == CHOOSE i \in nb : Cardinality({j \in nb : j <= i}) = n + 1
             IN  Cardinality({i \in BlankAt(ls) : i < at})
        ELSE Cardinality(BlankAt(ls))

\* C13: the segment of every range with 1 <= start <= end has y_start
\* strictly greater than y_end, for every text and every fitted size.
C13_TopAboveBottom ==
    Built =>
        LET bars == ParsedRepetitions
        IN  \A k \in 1..Len(elements) :
                (1 <= bars[k].start /\ bars[k].start <= bars[k].end) =>
                    elements[k].y_start > elements[k].y_end

\* a one-line range below a blank line, in a text shrunk to the floor
C13_Witness ==
    /\ Built
    /\ adjusted_font_size(hymn) = FontFloor
    /\ BlankAt(PhysicalLines) # {}
    /\ \E k \in 1..Len(elements) :
          /\ ParsedRepetitions[k].start = ParsedRepetitions[k].end
          /\ BlanksThrough(PhysicalLines, ParsedRepetitions[k].start - 1) >= 1
          /\ elements[k].y_start > elements[k].y_end

\* C14: one segment per range, in the order of the ranges; the k-th has
\* x = -(level_k * 6 * resize_factor), so of two segments of a hymn the one
\* with the higher level has the strictly more negative x.
C14_OneSegmentPerRange ==
    Built =>
        LET bars == ParsedRepetitions
            lv == SongLevels
            fitted == adjusted_font_size(hymn)
        IN  /\ Len(elements) = Len(bars)
            /\ \A k \in 1..Len(elements) :
                  /\ elements[k].x = -(lv[k] * 12 * fitted)
                  /\ elements[k] =
                        VerticalLine(hymn, [start |-> bars[k].start,
                                            end |-> bars[k].end, level |-> lv[k]])
            /\ \A j, k \in 1..Len(elements) :
                  lv[j] > lv[k] => elements[j].x < elements[k].x

\* two segments of different ranges at levels 1 and 2
C14_Witness ==
    /\ Built
    /\ Len(elements) = 2
    /\ ParsedRepetitions[1].start # ParsedRepetitions[2].start
    /\ SongLevels = <<1, 2>>
    /\ elements[2].x < elements[1].x

\* C15 as claimed: all five layout constants, the top padding included, are
\* their values at the default size times fitted / default, so every
\* coordinate of a segment is its value at the default size times
\* fitted / default (in units of 1/28 pt: -12 pt padding, 6 pt level
\* spacing, 7 pt line, 9 pt spacing, 8.5 pt blank line, times 2 * fitted).
C15_AllConstantsScaled ==
    Built =>
        LET bars == ParsedRepetitions
            lv == SongLevels
            ls == PhysicalLines
            fitted == adjusted_font_size(hymn)
        IN  \A k \in 1..Len(elements) :
              (1 <= bars[k].start /\ bars[k].start <= bars[k].end) =>
                LET start == bars[k].start - 1
                    end == bars[k].end - 1
                IN  /\ elements[k].x = -(lv[k] * 12) * fitted
                    /\ elements[k].y_start =
                          (-24 - (start * 14 + start * 18)
                               - BlanksThrough(ls, start) * 17) * fitted
                    /\ elements[k].y_end =
                          (-24 - ((end + 1) * 14 + end * 18)
                               - BlanksThrough(ls, end) * 17) * fitted

\* C15: the level spacing, the line height, the inter-line spacing and the
\* blank-line height are their values at the default size times
\* fitted / default; the top padding is a fixed -8 pt plus -4 pt times
\* fitted / default.
C15_PaddingPartlyScaled ==
    Built =>
        LET bars == ParsedRepetitions
            lv == SongLevels
            ls == PhysicalLines
            fitted == adjusted_font_size(hymn)
        IN  \A k \in 1..Len(elements) :
              (1 <= bars[k].start /\ bars[k].start <= bars[k].end) =>
                LET start == bars[k].start - 1
                    end == bars[k].end - 1
                IN  /\ elements[k].x = -(lv[k] * 12) * fitted
                    /\ elements[k].y_start =
                          -8 * 28
                          + (-8 - (start * 14 + start * 18)
                                - BlanksThrough(ls, start) * 17) * fitted
                    /\ elements[k].y_end =
                          -8 * 28
                          + (-8 - ((end + 1) * 14 + end * 18)
                                - BlanksThrough(ls, end) * 17) * fitted

\* a segment over a blank line in a text fitted at a size between the
\* floor and the default
C15_Witness ==
    /\ Built
    /\ adjusted_font_size(hymn) > FontFloor
    /\ adjusted_font_size(hymn) < default_body_font_size
    /\ \E k \in 1..Len(elements) :
          /\ ParsedRepetitions[k].start = 1
          /\ ParsedRepetitions[k].end = 2
          /\ BlanksThrough(PhysicalLines, 1) > BlanksThrough(PhysicalLines, 0)

\* C19: two segments of valid ranges drawn at the same x have disjoint
\* closed y-intervals [y_end, y_start].
C19_SameLevelDisjoint ==
    Built =>
        LET bars == ParsedRepetitions
        IN  \A j, k \in 1..Len(elements) :
                (/\ j # k
                 /\ 1 <= bars[j].start /\ bars[j].start <= bars[j].end
                 /\ 1 <= bars[k].start /\ bars[k].start <= bars[k].end
                 /\ elements[j].x = elements[k].x) =>
                    \/ elements[j].y_start < elements[k].y_end
                    \/ elements[k].y_start < elements[j].y_end

\* two one-line ranges at the same x, the later one given first, with a
\* blank line between their lines
C19_Witness ==
    /\ Built
    /\ adjusted_font_size(hymn) < default_body_font_size
    /\ Len(elements) = 2
    /\ ParsedRepetitions[1].start = 2 /\ ParsedRepetitions[1].end = 2
    /\ ParsedRepetitions[2].start = 1 /\ ParsedRepetitions[2].end = 1
    /\ elements[1].x = elements[2].x
    /\ BlanksThrough(PhysicalLines, 1) > BlanksThrough(PhysicalLines, 0)
    /\ elements[1].y_start < elements[2].y_end

---------------------------------------------------------------------------
(* More claims about one allocation session (specification Spec).          *)

\* C16 as claimed: the level emitted for a range is greater than or equal
\* to the level emitted for every range processed before it.
C16_LevelsNonDecreasing ==
    LET rs == EmittedRanges
        ls == EmittedLevels
    IN  (\A k \in 1..Len(rs) : Valid(rs[k])) =>
            \A i \in 1..Len(rs) : \A j \in 1..Len(rs) :
                i < j => ls[i] <= ls[j]

\* C16 as amended: the level emitted for a range is strictly greater than
\* the level emitted for every earlier range that shares a line with it.
C16_IncreasingAlongSharedLines ==
    LET rs == EmittedRanges
        ls == EmittedLevels
    IN  \A i \in 1..Len(rs) : \A j \in 1..Len(rs) :
            (i < j /\ Valid(rs[i]) /\ Valid(rs[j]) /\ Share(rs[i], rs[j]))
            => ls[i] < ls[j]

\* a range above an earlier one it shares a line with, followed by a range
\* at a lower level
C16_Witness ==
    LET rs == EmittedRanges
        ls == EmittedLevels
    IN  /\ \A k \in 1..Len(rs) : Valid(rs[k])
        /\ \E i \in 1..Len(rs) : \E j \in 1..Len(rs) : \E k \in 1..Len(rs) :
              /\ i < j /\ j < k
              /\ Share(rs[i], rs[j])
              /\ ls[i] < ls[j]
              /\ ls[k] < ls[j]

\* the level recorded for line i, 0 when none is
Recorded(alloc, i) == IF i \in DOMAIN alloc THEN alloc[i] ELSE 0

\* C17: processing a range writes the emitted level to every line number
\* of [start, end] and leaves every other line as it was; the level
\* recorded for a line never decreases, and it increases strictly when a
\* range covering the line is processed.
C17_WritesRangeOnly ==
    [][/\ \A i \in DOMAIN allocation : Recorded(allocation', i) >= allocation[i]
       /\ (pc = "loop" /\ cursor' = cursor + 1) =>
            LET r == ParseEntry(entries[cursor])
                emitted == IF method = "allocate_levels"
                           THEN levels'[cursor] ELSE result'[cursor].level
            IN  /\ DOMAIN allocation' = DOMAIN allocation \cup (r.start .. r.end)
                /\ \A i \in r.start .. r.end :
                      /\ allocation'[i] = emitted
                      /\ allocation'[i] > Recorded(allocation, i)
                /\ \A i \in DOMAIN allocation \ (r.start .. r.end) :
                      allocation'[i] = allocation[i]
      ]_vars

\* a range of two lines has been written over a line that held a level,
\* next to a line that kept its own
C17_Witness ==
    LET rs == EmittedRanges
        ls == EmittedLevels
    IN  /\ Len(rs) = 3
        /\ Valid(rs[3])
        /\ rs[3].end > rs[3].start
        /\ ls[3] >= 2
        /\ \A i \in Covers(rs[3]) : Recorded(allocation, i) = ls[3]
        /\ \E i \in DOMAIN allocation : i \notin Covers(rs[3]) /\ allocation[i] < ls[3]

\* the one-to-one maps of 1..n onto itself
Orderings(n) == {p \in [1..n -> 1..n] : \A a, b \in 1..n : p[a] = p[b] => a = b}

\* how many times the range r is given the level l in the parsed entries es
\* with levels lv
TimesGiven(es, lv, r, l) ==
    Cardinality({k \in 1..Len(es) : es[k].start = r.start /\ es[k].end = r.end /\ lv[k] = l})

\* C18: allocation is order-sensitive. Whenever a call has returned the
\* levels of valid ranges of which two different ones share a line, the
\* same ranges in some other order are given other levels: some range is
\* given some level a different number of times.
C18_OrderSensitive ==
    (pc = "done" /\ gen = "none") =>
        LET es == [k \in 1..Len(entries) |-> ParseEntry(entries[k])]
            lv == ret.levels
        IN  (/\ \A k \in 1..Len(es) : Valid(es[k])
             /\ \E i, j \in 1..Len(es) :
                   /\ Share(es[i], es[j])
                   /\ (es[i].start # es[j].start \/ es[i].end # es[j].end))
            => \E p \in Orderings(Len(es)) :
                   LET entries2 == [k \in 1..Len(es) |-> entries[p[k]]]
                       lv2 == FreshLevels(entries2, 1, EmptyAllocation)
                   IN  \E k \in 1..Len(es) :
                           TimesGiven(es, lv, es[k], lv[k]) #
                           TimesGiven([n \in 1..Len(es) |-> es[p[n]]], lv2, es[k], lv[k])

\* "1-1,2-2,1-2" has returned [1, 1, 2]; as "1-2,1-1,2-2" it returns [1, 2, 2]
C18_Witness ==
    /\ pc = "done"
    /\ s = JoinWith(<<RangeToken(1, 1), RangeToken(2, 2), RangeToken(1, 2)>>, ",", 1)
    /\ ret.levels = <<1, 1, 2>>
    /\ FreshLevels(<<RangeToken(1, 2), RangeToken(1, 1), RangeToken(2, 2)>>,
                   1, EmptyAllocation) = <<1, 2, 2>>

---------------------------------------------------------------------------
(* Two calls on one LevelAllocator: after a call has returned, the caller  *)
(* calls either method again with the same string.                         *)

\* the strings given to the allocator that is called twice
AgainInputs ==
    {JoinWith(t, ",", 1) : t \in UNION {[1..n -> LayoutTokens] : n \in 1..MaxLayoutEntries}}

\* an allocator whose public methods start by clearing the allocation
ClearedAllocation(old) == EmptyAllocation

\* self.allocation at the for loop of allocate_levels /
\* get_entries_with_levels: neither method assigns it before the loop
\* (old is the allocation at the call)
KeptAllocation(old) == old

\* the first call on a new allocator
CallFirst ==
    /\ pc = "idle"
    /\ gen = "none"
    /\ \E m \in Methods, str \in AgainInputs : Call(m, str)
    /\ allocation' = KeptAllocation(allocation)
    /\ UNCHANGED <<hymn, genVars, fitVars, callVars>>

\* the first call has returned and the caller, who keeps what it returned,
\* calls a method of the same allocator with the same string
CallAgain ==
    /\ pc = "done"
    /\ gen = "none"
    /\ first_ret = NoReturn
    /\ first_ret' = ret
    /\ \E m \in Methods : method' = m
    /\ pc' = "loop"
    /\ entries' = Split(s, ",")
    /\ cursor' = 1
    /\ levels' = <<>>
    /\ result' = <<>>
    /\ ret' = NoReturn
    /\ allocation' = KeptAllocation(allocation)
    /\ UNCHANGED <<s, hymn, genVars, fitVars, count_call>>

NextAgain == CallFirst \/ LoopStep \/ LoopRaise \/ Return \/ CallAgain

SpecAgain == Init /\ [][NextAgain]_vars

\* C20: neither method clears the allocation. The second call on the same
\* allocator with the same string of valid ranges starts from the
\* allocation the first call left, and gives every entry a level strictly
\* greater than the first call gave it.
C20_SecondCallHigher ==
    first_ret # NoReturn =>
        LET es == [k \in 1..Len(entries) |-> ParseEntry(entries[k])]
            now == EmittedLevels
        IN  (\A k \in 1..Len(es) : es[k].ok /\ Valid(es[k])) =>
                /\ Len(first_ret.levels) = Len(es)
                /\ \A k \in 1..Len(es) : \A i \in Covers(es[k]) :
                      Recorded(allocation, i) >= first_ret.levels[k]
                /\ \A k \in 1..Len(now) : now[k] > first_ret.levels[k]
                /\ pc = "done" =>
                      /\ Len(ret.levels) = Len(first_ret.levels)
                      /\ \A k \in 1..Len(es) : ret.levels[k] > first_ret.levels[k]

\* both calls have returned, the first [1, 2] and the second higher levels
C20_Witness ==
    /\ first_ret # NoReturn
    /\ first_ret.levels = <<1, 2>>
    /\ pc = "done"
    /\ ret.levels = <<3, 4>>

===========================================================================
